---- MODULE Spec2Model ----
(***************************************************************************)
(* Usage history and starred pairs of the profile launcher:                *)
(* src/helpers/apps.ts (the data-access layer over LocalStorage) and       *)
(* src/tools/history.ts (the getProfileHistory tool).                      *)
(*                                                                         *)
(* A string is a sequence of one-character strings.  An optional argument  *)
(* or an optional stored blob is <<>> (undefined) or <<v>> (the value v).  *)
(***************************************************************************)
EXTENDS Integers, Sequences, FiniteSets, TLC

VARIABLES
    storage,   \* LocalStorage: key -> <<>> (no item) or <<the JSON-parsed value>>
    now,       \* the last value Date.now() returned
    call,      \* the call that ran last: its name and its arguments
    ret,       \* what that call returned
    pre,       \* storage as it was when that call started
    toggled,   \* set of keys toggled an odd number of times since the last clear
    nOps,      \* number of calls made so far
    pc,        \* overlapping addToUsageHistory calls: position of each
    local      \* overlapping addToUsageHistory calls: the history each has read

vars == <<storage, now, call, ret, pre, toggled, nOps, pc, local>>

----------------------------------------------------------------------------
(* Bounds of the model *)

MaxOps == 3        \* calls per behaviour of the history specification
MaxStarOps == 5    \* calls per behaviour of the starring specification
MaxToolOps == 3    \* calls per behaviour of the tool and query specifications
MaxLimit == 2      \* largest limit passed to a query

(* Program constants *)

MaxHistory == 20   \* slice(0, 20) in addToUsageHistory
DefaultLimit == 10 \* limit = 10 in getProfileHistory

----------------------------------------------------------------------------
(* Strings *)

Space == " "

ToLowerChar(c) ==
    CASE c = "A" -> "a"
      [] c = "B" -> "b"
      [] c = "U" -> "u"
      [] c = "X" -> "x"
      [] c = "Y" -> "y"
      [] c = "Z" -> "z"
      [] OTHER -> c

\* String.prototype.toLowerCase
ToLowerCase(s) == [i \in 1..Len(s) |-> ToLowerChar(s[i])]

RECURSIVE TrimStart(_)
TrimStart(s) ==
    IF s # <<>> /\ Head(s) = Space THEN TrimStart(Tail(s)) ELSE s

RECURSIVE TrimEnd(_)
TrimEnd(s) ==
    IF s # <<>> /\ s[Len(s)] = Space THEN TrimEnd(SubSeq(s, 1, Len(s) - 1)) ELSE s

\* String.prototype.trim
Trim(s) == TrimEnd(TrimStart(s))

\* String.prototype.startsWith
StartsWith(s, p) == Len(s) >= Len(p) /\ SubSeq(s, 1, Len(p)) = p

\* String.prototype.includes
Includes(s, p) ==
    \E i \in 0..(Len(s) - Len(p)) : SubSeq(s, i + 1, i + Len(p)) = p

\* Array.prototype.slice / String.prototype.slice with integer arguments:
\* a negative index counts from the end, and both are clamped to the length.
SliceIndex(n, k) ==
    IF k < 0 THEN (IF n + k < 0 THEN 0 ELSE n + k)
    ELSE (IF k > n THEN n ELSE k)

Slice(s, start, end) == SubSeq(s, SliceIndex(Len(s), start) + 1, SliceIndex(Len(s), end))

SliceFrom(s, start) == Slice(s, start, Len(s))

\* Array.prototype.includes
ArrayIncludes(s, x) == \E i \in 1..Len(s) : s[i] = x

----------------------------------------------------------------------------
(* LocalStorage and its keys *)

STORAGE_KEYS ==
    [USAGE_HISTORY |-> "usageHistory",
     STARRED_HISTORY_ITEMS |-> "starredHistoryItems",
     APP_SETTINGS |-> "appSettings",
     CUSTOM_APPS |-> "customApps"]

Keys == {STORAGE_KEYS.USAGE_HISTORY, STORAGE_KEYS.STARRED_HISTORY_ITEMS,
         STORAGE_KEYS.APP_SETTINGS, STORAGE_KEYS.CUSTOM_APPS}

EmptyStorage == [k \in Keys |-> <<>>]

\* LocalStorage.setItem(key, JSON.stringify(value))
SetItem(st, key, value) == [st EXCEPT ![key] = <<value>>]

\* json ? JSON.parse(json) : []
ParseOrEmpty(blob) == IF blob = <<>> THEN <<>> ELSE blob[1]

getUsageHistory(st) == ParseOrEmpty(st[STORAGE_KEYS.USAGE_HISTORY])

getStarredHistoryPairs(st) == ParseOrEmpty(st[STORAGE_KEYS.STARRED_HISTORY_ITEMS])

getCustomApps(st) == ParseOrEmpty(st[STORAGE_KEYS.CUSTOM_APPS])

getAppSettings(st) == ParseOrEmpty(st[STORAGE_KEYS.APP_SETTINGS])

----------------------------------------------------------------------------
(* Composite keys *)

normalizeApp(app) == ToLowerCase(Trim(app))

normalizeProfile(profile) ==
    LET trimmed == Trim(profile)
    IN  ToLowerCase(IF StartsWith(trimmed, <<"@">>) THEN SliceFrom(trimmed, 1) ELSE trimmed)

getHistoryPairKey(profile, app) ==
    normalizeApp(app) \o <<":", ":">> \o normalizeProfile(profile)

----------------------------------------------------------------------------
(* Usage history: a list of UsageHistoryItem {profile, app, appName, timestamp} *)

UsageHistoryItem(profile, app, appName, timestamp) ==
    [profile |-> profile, app |-> app, appName |-> appName, timestamp |-> timestamp]

SamePair(item, profile, app) == item.profile = profile /\ item.app = app

\* addToUsageHistory whose cut keeps one entry too many
addToUsageHistoryOffByOne(st, profile, app, appName, t) ==
    LET history == getUsageHistory(st)
        filtered == SelectSeq(history, LAMBDA item : ~SamePair(item, profile, app))
        newItem == UsageHistoryItem(profile, app, appName, t)
        updated == Slice(<<newItem>> \o filtered, 0, 21)
    IN  SetItem(st, STORAGE_KEYS.USAGE_HISTORY, updated)

\* addToUsageHistory that appends the new entry instead of prepending it
addToUsageHistoryAppend(st, profile, app, appName, t) ==
    LET history == getUsageHistory(st)
        filtered == SelectSeq(history, LAMBDA item : ~SamePair(item, profile, app))
        newItem == UsageHistoryItem(profile, app, appName, t)
        updated == Slice(filtered \o <<newItem>>, 0, 20)
    IN  SetItem(st, STORAGE_KEYS.USAGE_HISTORY, updated)

\* The list addToUsageHistory writes, computed from the history it has read
UpdatedHistory(history, profile, app, appName, t) ==
    LET filtered == SelectSeq(history, LAMBDA item : ~SamePair(item, profile, app))
        newItem == UsageHistoryItem(profile, app, appName, t)
    IN  Slice(<<newItem>> \o filtered, 0, MaxHistory)

addToUsageHistory(st, profile, app, appName, t) ==
    LET history == getUsageHistory(st)
        updated == UpdatedHistory(history, profile, app, appName, t)
    IN  SetItem(st, STORAGE_KEYS.USAGE_HISTORY, updated)

removeUsageHistoryItem(st, profile, app) ==
    LET history == getUsageHistory(st)
        filtered == SelectSeq(history, LAMBDA item : ~SamePair(item, profile, app))
    IN  SetItem(st, STORAGE_KEYS.USAGE_HISTORY, filtered)

\* updateUsageHistoryItem that moves the renamed entry to the front
updateUsageHistoryItemMoveToFront(st, oldProfile, oldApp, newProfile, t) ==
    LET history == getUsageHistory(st)
        renamed == [i \in 1..Len(history) |->
                       IF SamePair(history[i], oldProfile, oldApp)
                       THEN [history[i] EXCEPT !.profile = newProfile, !.timestamp = t]
                       ELSE history[i]]
        hit == SelectSeq(renamed, LAMBDA item : SamePair(item, newProfile, oldApp))
        rest == SelectSeq(renamed, LAMBDA item : ~SamePair(item, newProfile, oldApp))
    IN  SetItem(st, STORAGE_KEYS.USAGE_HISTORY,
                IF \E i \in 1..Len(history) : SamePair(history[i], oldProfile, oldApp)
                THEN hit \o rest ELSE history)

updateUsageHistoryItem(st, oldProfile, oldApp, newProfile, t) ==
    LET history == getUsageHistory(st)
        updated == [i \in 1..Len(history) |->
                       IF SamePair(history[i], oldProfile, oldApp)
                       THEN [history[i] EXCEPT !.profile = newProfile, !.timestamp = t]
                       ELSE history[i]]
    IN  SetItem(st, STORAGE_KEYS.USAGE_HISTORY, updated)

----------------------------------------------------------------------------
(* Starred pairs: a list of composite keys *)

setStarredHistoryPairs(st, pairs) == SetItem(st, STORAGE_KEYS.STARRED_HISTORY_ITEMS, pairs)

isHistoryItemStarred(st, profile, app) ==
    ArrayIncludes(getStarredHistoryPairs(st), getHistoryPairKey(profile, app))

\* toggleStarredHistoryItem that appends the key without looking for it
toggleStarredHistoryItemAlwaysAdd(st, profile, app) ==
    LET starredPairs == getStarredHistoryPairs(st)
        key == getHistoryPairKey(profile, app)
    IN  [storage |-> setStarredHistoryPairs(st, starredPairs \o <<key>>), value |-> TRUE]

\* The new storage and the returned starred state
toggleStarredHistoryItem(st, profile, app) ==
    LET starredPairs == getStarredHistoryPairs(st)
        key == getHistoryPairKey(profile, app)
    IN  IF ArrayIncludes(starredPairs, key)
        THEN [storage |-> setStarredHistoryPairs(st,
                              SelectSeq(starredPairs, LAMBDA pair : pair # key)),
              value |-> FALSE]
        ELSE [storage |-> setStarredHistoryPairs(st, starredPairs \o <<key>>),
              value |-> TRUE]

clearStarredHistoryItems(st) == setStarredHistoryPairs(st, <<>>)

----------------------------------------------------------------------------
(* Queries *)

\* Array.prototype.sort((a, b) => b.timestamp - a.timestamp): a stable sort
RECURSIVE InsertByTimestamp(_, _)
InsertByTimestamp(sorted, x) ==
    IF sorted = <<>> THEN <<x>>
    ELSE IF sorted[Len(sorted)].timestamp >= x.timestamp THEN sorted \o <<x>>
    ELSE InsertByTimestamp(SubSeq(sorted, 1, Len(sorted) - 1), x) \o <<sorted[Len(sorted)]>>

RECURSIVE SortAscending(_)
SortAscending(items) ==
    IF items = <<>> THEN <<>>
    ELSE LET rest == SortAscending(SubSeq(items, 1, Len(items) - 1))
             x == items[Len(items)]
             before == SelectSeq(rest, LAMBDA y : y.timestamp <= x.timestamp)
             after == SelectSeq(rest, LAMBDA y : y.timestamp > x.timestamp)
         IN  before \o <<x>> \o after

RECURSIVE SortByTimestampDesc(_)
SortByTimestampDesc(items) ==
    IF items = <<>> THEN <<>>
    ELSE InsertByTimestamp(SortByTimestampDesc(SubSeq(items, 1, Len(items) - 1)),
                           items[Len(items)])

\* if (app) ...: undefined and "" are falsy
Truthy(opt) == opt # <<>> /\ opt[1] # <<>>

\* item.app.toLowerCase() === appLower || item.appName.toLowerCase().includes(appLower)
MatchesApp(item, app) ==
    LET appLower == ToLowerCase(app)
    IN  ToLowerCase(item.app) = appLower \/ Includes(ToLowerCase(item.appName), appLower)

\* getStarredUsageHistory without the starred filter
getStarredUsageHistoryUnfiltered(st, app, limit) ==
    LET usageHistory == getUsageHistory(st)
        filtered == IF Truthy(app)
                    THEN SelectSeq(usageHistory, LAMBDA item : MatchesApp(item, app[1]))
                    ELSE usageHistory
        sorted == SortByTimestampDesc(filtered)
    IN  IF limit # <<>> THEN Slice(sorted, 0, limit[1]) ELSE sorted

getStarredUsageHistory(st, app, limit) ==
    LET usageHistory == getUsageHistory(st)
        starredPairs == getStarredHistoryPairs(st)
        starredSet == {starredPairs[i] : i \in 1..Len(starredPairs)}
        starredItems == SelectSeq(usageHistory,
                            LAMBDA item : getHistoryPairKey(item.profile, item.app) \in starredSet)
        filtered == IF Truthy(app)
                    THEN SelectSeq(starredItems, LAMBDA item : MatchesApp(item, app[1]))
                    ELSE starredItems
        sorted == SortByTimestampDesc(filtered)
    IN  IF limit # <<>> THEN Slice(sorted, 0, limit[1]) ELSE sorted

----------------------------------------------------------------------------
(* Apps: App {value, name, urlTemplate}; urlTemplate is read by the favicon *)
(* helpers only and is left out.                                            *)

App(value, name) == [value |-> value, name |-> name]

AppX == App(<<"x">>, <<"X">>)
AppY == App(<<"y">>, <<"Y", "x">>)
AppZ == App(<<"z">>, <<"Z">>)

\* A sample of the built-in app list
defaultApps == <<AppX, AppY>>

\* settingsMap.get(value): the last setting for the value wins
RECURSIVE SettingFor(_, _)
SettingFor(settings, value) ==
    IF settings = <<>> THEN <<>>
    ELSE IF settings[Len(settings)].value = value THEN <<settings[Len(settings)]>>
    ELSE SettingFor(SubSeq(settings, 1, Len(settings) - 1), value)

getAllApps(st) ==
    LET customApps == getCustomApps(st)
        appSettings == getAppSettings(st)
        allApps == defaultApps \o customApps
    IN  SelectSeq(allApps,
            LAMBDA app : LET setting == SettingFor(appSettings, app.value)
                         IN  IF setting # <<>> THEN setting[1].visible ELSE TRUE)

updateAppSettings(st, settings) == SetItem(st, STORAGE_KEYS.APP_SETTINGS, settings)

addCustomApp(st, app) ==
    SetItem(st, STORAGE_KEYS.CUSTOM_APPS, getCustomApps(st) \o <<app>>)

removeCustomApp(st, value) ==
    SetItem(st, STORAGE_KEYS.CUSTOM_APPS,
            SelectSeq(getCustomApps(st), LAMBDA p : p.value # value))

\* allApps.find(...): the first app whose value or name is the input, as
\* <<>> or <<match>>
FindApp(apps, normalizedInput) ==
    LET hits == {i \in 1..Len(apps) :
                    \/ ToLowerCase(apps[i].value) = normalizedInput
                    \/ ToLowerCase(apps[i].name) = normalizedInput}
    IN  IF hits = {} THEN <<>>
        ELSE <<apps[CHOOSE i \in hits : \A j \in hits : i <= j]>>

\* resolveAppValue that falls back to the first visible app
resolveAppValueFallback(st, inputApp) ==
    LET allApps == getAllApps(st)
        normalizedInput == ToLowerCase(Trim(inputApp))
        match == FindApp(allApps, normalizedInput)
    IN  IF match # <<>> THEN match
        ELSE IF allApps # <<>> THEN <<Head(allApps)>> ELSE <<>>

\* <<>> (null) or <<the app matched>>
resolveAppValue(st, inputApp) ==
    LET allApps == getAllApps(st)
        normalizedInput == ToLowerCase(Trim(inputApp))
    IN  FindApp(allApps, normalizedInput)

----------------------------------------------------------------------------
(* The getProfileHistory tool.  Its result is a string: a message, or a    *)
(* header followed by one line per item; it is modelled as the message's   *)
(* name and the items listed.                                              *)

Result(msg, items) == [msg |-> msg, items |-> items]

HistoryToolArgs(action, profile, app, limit) ==
    [action |-> action, profile |-> profile, app |-> app, limit |-> limit]

\* The star/unstar branch that toggles without looking at the current state
StarOrUnstarBlind(st, action, profile, app) ==
    IF ~Truthy(profile) \/ ~Truthy(app)
    THEN [storage |-> st, value |-> Result("ProvideBoth", <<>>)]
    ELSE LET resolvedApp == resolveAppValue(st, app[1])
         IN  IF resolvedApp = <<>>
             THEN [storage |-> st, value |-> Result("NotAvailable", <<>>)]
             ELSE LET normalizedProfile ==
                          IF StartsWith(profile[1], <<"@">>)
                          THEN SliceFrom(profile[1], 1) ELSE profile[1]
                      toggle == toggleStarredHistoryItem(st, normalizedProfile,
                                                         resolvedApp[1].value)
                  IN  [storage |-> toggle.storage,
                       value |-> Result(IF action = "star" THEN "Starred" ELSE "Unstarred",
                                        <<>>)]

\* The star/unstar branch of getProfileHistory
StarOrUnstar(st, action, profile, app) ==
    IF ~Truthy(profile) \/ ~Truthy(app)
    THEN [storage |-> st, value |-> Result("ProvideBoth", <<>>)]
    ELSE LET resolvedApp == resolveAppValue(st, app[1])
         IN  IF resolvedApp = <<>>
             THEN [storage |-> st, value |-> Result("NotAvailable", <<>>)]
             ELSE LET normalizedProfile ==
                          IF StartsWith(profile[1], <<"@">>)
                          THEN SliceFrom(profile[1], 1) ELSE profile[1]
                      isStarred == isHistoryItemStarred(st, normalizedProfile,
                                                        resolvedApp[1].value)
                      toggle == toggleStarredHistoryItem(st, normalizedProfile,
                                                         resolvedApp[1].value)
                  IN  IF action = "star" /\ isStarred
                      THEN [storage |-> st, value |-> Result("AlreadyStarred", <<>>)]
                      ELSE IF action = "unstar" /\ ~isStarred
                      THEN [storage |-> st, value |-> Result("NotStarred", <<>>)]
                      ELSE [storage |-> toggle.storage,
                            value |-> Result(IF action = "star" THEN "Starred"
                                             ELSE "Unstarred", <<>>)]

\* The list_starred branch of getProfileHistory
ListStarred(st, app, limit) ==
    LET starredHistory == getStarredUsageHistory(st, app, <<limit>>)
    IN  IF Len(starredHistory) = 0
        THEN Result("NoStarred", <<>>)
        ELSE Result("Starred profiles", starredHistory)

\* The list branch that sorts oldest first
ListHistoryOldestFirst(st, app, limit) ==
    LET usageHistory == getUsageHistory(st)
        filteredHistory == IF Truthy(app)
                           THEN SelectSeq(usageHistory, LAMBDA item : MatchesApp(item, app[1]))
                           ELSE usageHistory
    IN  IF Len(usageHistory) = 0 THEN Result("NoHistory", <<>>)
        ELSE IF Truthy(app) /\ Len(filteredHistory) = 0 THEN Result("NoneOnApp", <<>>)
        ELSE Result("Recently opened profiles",
                    Slice(SortAscending(filteredHistory), 0, limit))

\* The list branch of getProfileHistory
ListHistory(st, app, limit) ==
    LET usageHistory == getUsageHistory(st)
        filteredHistory == IF Truthy(app)
                           THEN SelectSeq(usageHistory, LAMBDA item : MatchesApp(item, app[1]))
                           ELSE usageHistory
    IN  IF Len(usageHistory) = 0 THEN Result("NoHistory", <<>>)
        ELSE IF Truthy(app) /\ Len(filteredHistory) = 0 THEN Result("NoneOnApp", <<>>)
        ELSE Result("Recently opened profiles",
                    Slice(SortByTimestampDesc(filteredHistory), 0, limit))

\* The new storage and the returned string
getProfileHistory(st, args) ==
    LET action == IF args.action = <<>> THEN "list" ELSE args.action[1]
        limit == IF args.limit = <<>> THEN DefaultLimit ELSE args.limit[1]
    IN  IF action = "star" \/ action = "unstar"
        THEN StarOrUnstar(st, action, args.profile, args.app)
        ELSE IF action = "list_starred"
        THEN [storage |-> st, value |-> ListStarred(st, args.app, limit)]
        ELSE [storage |-> st, value |-> ListHistory(st, args.app, limit)]

----------------------------------------------------------------------------
(* Inputs *)

Digits == <<"0", "1", "2", "3", "4", "5", "6", "7", "8", "9">>

SeedProfile(i) == <<"u", Digits[((i - 1) \div 2) + 1]>>

SeedApp(i) == IF i % 2 = 1 THEN AppX ELSE AppY

\* The store after n calls of addToUsageHistory for n different pairs,
\* made at times 1..n
RECURSIVE Seeded(_)
Seeded(n) ==
    IF n = 0 THEN EmptyStorage
    ELSE addToUsageHistory(Seeded(n - 1), SeedProfile(n), SeedApp(n).value,
                           SeedApp(n).name, n)

None == <<>>

Some(v) == <<v>>

NoCall ==
    [op |-> "none", action |-> None, profile |-> None, app |-> None,
     appName |-> None, newProfile |-> None, limit |-> None]

NoResult == Result("void", <<>>)

\* Date.now() does not go back and may return the same millisecond twice
Clock == {now, now + 1}

Range(s) == {s[i] : i \in 1..Len(s)}

Flip(set, key) == IF key \in set THEN set \ {key} ELSE set \cup {key}

----------------------------------------------------------------------------
(* Calls, one at a time: each runs from its first read to its last write *)

Returned(newStorage, theCall, value, t) ==
    /\ storage' = newStorage
    /\ call' = theCall
    /\ ret' = value
    /\ pre' = storage
    /\ now' = t
    /\ nOps' = nOps + 1
    /\ UNCHANGED <<pc, local>>

AddToUsageHistory(profiles, apps) ==
    \E profile \in profiles, app \in apps, t \in Clock :
        /\ Returned(addToUsageHistory(storage, profile, app.value, app.name, t),
                    [NoCall EXCEPT !.op = "addToUsageHistory", !.profile = Some(profile),
                                   !.app = Some(app.value), !.appName = Some(app.name)],
                    NoResult, t)
        /\ UNCHANGED toggled

RemoveUsageHistoryItem(profiles, apps) ==
    \E profile \in profiles, app \in apps :
        /\ Returned(removeUsageHistoryItem(storage, profile, app.value),
                    [NoCall EXCEPT !.op = "removeUsageHistoryItem", !.profile = Some(profile),
                                   !.app = Some(app.value)],
                    NoResult, now)
        /\ UNCHANGED toggled

UpdateUsageHistoryItem(profiles, apps) ==
    \E oldProfile \in profiles, oldApp \in apps, newProfile \in profiles, t \in Clock :
        /\ Returned(updateUsageHistoryItem(storage, oldProfile, oldApp.value, newProfile, t),
                    [NoCall EXCEPT !.op = "updateUsageHistoryItem",
                                   !.profile = Some(oldProfile), !.app = Some(oldApp.value),
                                   !.newProfile = Some(newProfile)],
                    NoResult, t)
        /\ UNCHANGED toggled

ToggleStarredHistoryItem(profiles, apps) ==
    \E profile \in profiles, app \in apps :
        LET toggle == toggleStarredHistoryItem(storage, profile, app)
        IN  /\ Returned(toggle.storage,
                        [NoCall EXCEPT !.op = "toggleStarredHistoryItem",
                                       !.profile = Some(profile), !.app = Some(app)],
                        Result(IF toggle.value THEN "true" ELSE "false", <<>>), now)
            /\ toggled' = Flip(toggled, getHistoryPairKey(profile, app))

ClearStarredHistoryItems ==
    /\ Returned(clearStarredHistoryItems(storage),
                [NoCall EXCEPT !.op = "clearStarredHistoryItems"], NoResult, now)
    /\ toggled' = {}

----------------------------------------------------------------------------
(* The usage history under addToUsageHistory, removeUsageHistoryItem and   *)
(* updateUsageHistoryItem, from an empty store or from a store that        *)
(* MaxHistory - 1 or MaxHistory calls of addToUsageHistory have filled.    *)

SeedSizes == {0, MaxHistory - 1, MaxHistory}

HistProfiles == {<<"a">>, SeedProfile(1)}

HistApps == {AppX, AppY}

Idle == [i \in {1, 2} |-> "idle"]

NoLocal == [i \in {1, 2} |-> [profile |-> <<>>, app |-> <<>>, appName |-> <<>>,
                               history |-> <<>>]]

InitWith(st, t) ==
    /\ storage = st
    /\ now = t
    /\ call = NoCall
    /\ ret = NoResult
    /\ pre = st
    /\ toggled = Range(getStarredHistoryPairs(st))
    /\ nOps = 0
    /\ pc = Idle
    /\ local = NoLocal

Init == \E n \in SeedSizes : InitWith(Seeded(n), n)

HistAdd == nOps < MaxOps /\ AddToUsageHistory(HistProfiles, HistApps)

HistRemove == nOps < MaxOps /\ RemoveUsageHistoryItem(HistProfiles, HistApps)

HistUpdate == nOps < MaxOps /\ UpdateUsageHistoryItem(HistProfiles, HistApps)

Next == HistAdd \/ HistRemove \/ HistUpdate

Spec == Init /\ [][Next]_vars

----------------------------------------------------------------------------
(* Properties of the usage history *)

History == getUsageHistory(storage)

PreHistory == getUsageHistory(pre)

CalledWith(op) == call.op = op

\* C1: the stored usage history holds at most 20 entries in every state
\* reachable by addToUsageHistory, removeUsageHistoryItem and
\* updateUsageHistoryItem calls.
HistoryAtMostTwenty == Len(History) <= MaxHistory

\* A full history has just been given an entry for a pair it did not hold.
FullHistoryGotNewPair ==
    /\ CalledWith("addToUsageHistory")
    /\ Len(PreHistory) = MaxHistory
    /\ \A i \in 1..Len(PreHistory) : ~SamePair(PreHistory[i], call.profile[1], call.app[1])
    /\ Len(History) = MaxHistory

\* Entry i of the history read is kept by the call: its pair is not the call's
Kept(i) == ~SamePair(PreHistory[i], call.profile[1], call.app[1])

KeptUpTo(i) == Cardinality({m \in 1..i : Kept(m)})

Min(a, b) == IF a <= b THEN a ELSE b

\* C2: after addToUsageHistory(profile, app, appName) the store holds the new
\* entry at index 0, then the entries of the previous history whose pair
\* differs, in their previous order, the whole cut to the first 20.
AddPrependsDedupesTruncates ==
    CalledWith("addToUsageHistory") =>
        /\ Len(History) = Min(MaxHistory, 1 + KeptUpTo(Len(PreHistory)))
        /\ History[1] = UsageHistoryItem(call.profile[1], call.app[1], call.appName[1], now)
        /\ \A k \in 2..Len(History) :
               \E i \in 1..Len(PreHistory) :
                   /\ Kept(i)
                   /\ KeptUpTo(i) = k - 1
                   /\ History[k] = PreHistory[i]

\* A full history of other pairs got a new entry: its tail entry is gone and
\* the entry before the tail is the new tail.
AddDroppedTheTail ==
    /\ FullHistoryGotNewPair
    /\ History[MaxHistory] = PreHistory[MaxHistory - 1]
    /\ \A k \in 1..Len(History) : History[k] # PreHistory[MaxHistory]

\* C3: no two stored history entries have the same (profile, app).
NoDuplicatePairs ==
    \A i, j \in 1..Len(History) :
        SamePair(History[i], History[j].profile, History[j].app) => i = j

\* C9: updateUsageHistoryItem(oldProfile, oldApp, newProfile) gives the entries
\* of the pair (oldProfile, oldApp) the new profile and a fresh timestamp in
\* place and leaves every other entry and the length as they were.
UpdateRenamesInPlace ==
    CalledWith("updateUsageHistoryItem") =>
        /\ Len(History) = Len(PreHistory)
        /\ \A i \in 1..Len(PreHistory) :
               IF SamePair(PreHistory[i], call.profile[1], call.app[1])
               THEN History[i] = UsageHistoryItem(call.newProfile[1], PreHistory[i].app,
                                                  PreHistory[i].appName, now)
               ELSE History[i] = PreHistory[i]
        /\ (\A i \in 1..Len(PreHistory) :
                ~SamePair(PreHistory[i], call.profile[1], call.app[1]))
               => History = PreHistory

\* An entry that was not at the front was renamed, beside entries left alone.
UpdateRenamedInnerEntry ==
    /\ CalledWith("updateUsageHistoryItem")
    /\ call.newProfile # call.profile
    /\ \E i \in 2..Len(PreHistory) :
           /\ SamePair(PreHistory[i], call.profile[1], call.app[1])
           /\ History[i].profile = call.newProfile[1]
           /\ History[1] = PreHistory[1]

----------------------------------------------------------------------------
(* Starring under toggleStarredHistoryItem and clearStarredHistoryItems,   *)
(* from an empty store.                                                    *)

StarProfiles == {<<"a">>, <<"@", "A", " ">>, <<"b">>}

StarApps == {<<"x">>, <<" ", "X">>, <<"y">>}

InitStar == InitWith(EmptyStorage, 0)

StarToggle == nOps < MaxStarOps /\ ToggleStarredHistoryItem(StarProfiles, StarApps)

StarClear == nOps < MaxStarOps /\ ClearStarredHistoryItems

NextStar == StarToggle \/ StarClear

SpecStar == InitStar /\ [][NextStar]_vars

Starred == getStarredHistoryPairs(storage)

PreStarred == getStarredHistoryPairs(pre)

StarKeys == {getHistoryPairKey(profile, app) : profile \in StarProfiles, app \in StarApps}

\* C4: a composite key is in the starred list iff it was toggled an odd number
\* of times since the last clear; it occurs there at most once; a toggle
\* returns the new membership of its own key and changes no other key's.
StarringIsSetToggle ==
    /\ \A key \in StarKeys \cup toggled : ArrayIncludes(Starred, key) <=> key \in toggled
    /\ \A i, j \in 1..Len(Starred) : Starred[i] = Starred[j] => i = j
    /\ CalledWith("toggleStarredHistoryItem") =>
           /\ ret.msg = (IF isHistoryItemStarred(storage, call.profile[1], call.app[1])
                         THEN "true" ELSE "false")
           /\ isHistoryItemStarred(storage, call.profile[1], call.app[1])
                  # isHistoryItemStarred(pre, call.profile[1], call.app[1])
           /\ \A key \in StarKeys :
                  key # getHistoryPairKey(call.profile[1], call.app[1])
                      => (ArrayIncludes(Starred, key) <=> ArrayIncludes(PreStarred, key))

\* A key was toggled off by a differently written profile and app while two
\* other keys stayed starred.
ToggledOffAmongOthers ==
    /\ CalledWith("toggleStarredHistoryItem")
    /\ ret.msg = "false"
    /\ call.profile[1] = <<"@", "A", " ">>
    /\ call.app[1] = <<" ", "X">>
    /\ Len(PreStarred) = 3
    /\ PreStarred[1] = getHistoryPairKey(<<"a">>, <<"x">>)
    /\ Len(Starred) = 2

----------------------------------------------------------------------------
(* Two overlapping addToUsageHistory calls: each reads the stored history  *)
(* and, after the await, writes the whole list.                            *)

ConcSeedSizes == {0, 1, MaxHistory - 2}

ConcProfiles == {<<"a">>, <<"b">>}

ConcApps == {AppX, AppY}

ConcArgs == {[profile |-> p, app |-> a.value, appName |-> a.name, history |-> <<>>] :
                 p \in ConcProfiles, a \in ConcApps}

InitConc ==
    \E n \in ConcSeedSizes, first \in ConcArgs, second \in ConcArgs :
        /\ ~(first.profile = second.profile /\ first.app = second.app)
        /\ storage = Seeded(n)
        /\ now = n
        /\ call = NoCall
        /\ ret = NoResult
        /\ pre = Seeded(n)
        /\ toggled = {}
        /\ nOps = 0
        /\ pc = [i \in {1, 2} |-> "read"]
        /\ local = [i \in {1, 2} |-> IF i = 1 THEN first ELSE second]

\* const history = await getUsageHistory()
ConcRead(i) ==
    /\ pc[i] = "read"
    /\ local' = [local EXCEPT ![i].history = getUsageHistory(storage)]
    /\ pc' = [pc EXCEPT ![i] = "write"]
    /\ UNCHANGED <<storage, now, call, ret, pre, toggled, nOps>>

\* filter, prepend, slice and LocalStorage.setItem
ConcWrite(i) ==
    /\ pc[i] = "write"
    /\ \E t \in Clock :
           /\ storage' = SetItem(storage, STORAGE_KEYS.USAGE_HISTORY,
                                 UpdatedHistory(local[i].history, local[i].profile,
                                                local[i].app, local[i].appName, t))
           /\ now' = t
    /\ pc' = [pc EXCEPT ![i] = "done"]
    /\ UNCHANGED <<call, ret, pre, toggled, nOps, local>>

NextConc == \E i \in {1, 2} : ConcRead(i) \/ ConcWrite(i)

SpecConc == InitConc /\ [][NextConc]_vars

HasEntryFor(history, profile, app) ==
    \E k \in 1..Len(history) : SamePair(history[k], profile, app)

\* C10: once two overlapping addToUsageHistory calls for different pairs on a
\* history of at most 18 entries have both completed, the stored history has
\* an entry for both pairs.
BothOverlappingAddsStored ==
    (pc[1] = "done" /\ pc[2] = "done") =>
        /\ HasEntryFor(History, local[1].profile, local[1].app)
        /\ HasEntryFor(History, local[2].profile, local[2].app)

----------------------------------------------------------------------------
(* The getProfileHistory tool, from an empty store or a store that a few   *)
(* addToUsageHistory calls have filled, with the app list being edited.    *)

GetProfileHistory(argSet) ==
    \E args \in argSet :
        LET out == getProfileHistory(storage, args)
        IN  /\ Returned(out.storage,
                        [NoCall EXCEPT !.op = "getProfileHistory", !.action = args.action,
                                       !.profile = args.profile, !.app = args.app,
                                       !.limit = args.limit],
                        out.value, now)
            /\ toggled' = LET was == Range(getStarredHistoryPairs(storage))
                              is == Range(getStarredHistoryPairs(out.storage))
                          IN  (toggled \ (was \ is)) \cup (is \ was)

UpdateAppSettings(settingsSet) ==
    \E settings \in settingsSet :
        /\ Returned(updateAppSettings(storage, settings),
                    [NoCall EXCEPT !.op = "updateAppSettings"], NoResult, now)
        /\ UNCHANGED toggled

AddCustomApp(apps) ==
    \E app \in apps :
        /\ Returned(addCustomApp(storage, app),
                    [NoCall EXCEPT !.op = "addCustomApp", !.app = Some(app.value)],
                    NoResult, now)
        /\ UNCHANGED toggled

RemoveCustomApp(apps) ==
    \E app \in apps :
        /\ Returned(removeCustomApp(storage, app.value),
                    [NoCall EXCEPT !.op = "removeCustomApp", !.app = Some(app.value)],
                    NoResult, now)
        /\ UNCHANGED toggled

ToolSeedSizes == {0, 3, DefaultLimit + 1}

Limits == {None} \cup {Some(n) : n \in -1..MaxLimit}

StarArgs ==
    {HistoryToolArgs(Some(action), profile, app, None) :
        action \in {"star", "unstar"},
        profile \in {None, Some(<<>>), Some(<<"a">>), Some(<<"@", "A">>),
                     Some(<<"@", "@", "a">>)},
        app \in {None, Some(<<" ", "X">>), Some(<<"y", "x">>), Some(<<"z">>), Some(<<"q">>)}}

ListArgs ==
    {HistoryToolArgs(action, None, app, limit) :
        action \in {None, Some("list")},
        app \in {None, Some(<<"X">>), Some(<<"y">>)},
        limit \in Limits}

ListStarredArgs ==
    {HistoryToolArgs(Some("list_starred"), None, app, limit) :
        app \in {None, Some(<<"x">>)}, limit \in {None, Some(1)}}

ToolSettings ==
    {<<[value |-> <<"x">>, visible |-> FALSE]>>,
     <<[value |-> <<"y">>, visible |-> FALSE], [value |-> <<"y">>, visible |-> TRUE]>>}

InitTool == \E n \in ToolSeedSizes : InitWith(Seeded(n), n)

ToolGetProfileHistory ==
    nOps < MaxToolOps /\ GetProfileHistory(StarArgs \cup ListArgs \cup ListStarredArgs)

ToolUpdate ==
    nOps < MaxToolOps /\ UpdateUsageHistoryItem({SeedProfile(1)}, {AppX, AppY})

ToolSettingsUpdate == nOps < MaxToolOps /\ UpdateAppSettings(ToolSettings)

ToolAddCustomApp == nOps < MaxToolOps /\ AddCustomApp({AppZ})

ToolRemoveCustomApp == nOps < MaxToolOps /\ RemoveCustomApp({AppZ})

NextTool ==
    \/ ToolGetProfileHistory
    \/ ToolUpdate
    \/ ToolSettingsUpdate
    \/ ToolAddCustomApp
    \/ ToolRemoveCustomApp

SpecTool == InitTool /\ [][NextTool]_vars

----------------------------------------------------------------------------
(* Properties of the tool *)

ToolCalled(actions) ==
    /\ CalledWith("getProfileHistory")
    /\ (IF call.action = None THEN "list" ELSE call.action[1]) \in actions

\* Number of entries of a list equal to a given item
Count(items, x) == Cardinality({i \in 1..Len(items) : items[i] = x})

\* The history entries a query with this app argument may return
Candidates(history, app) ==
    SelectSeq(history,
        LAMBDA item :
            Truthy(app) =>
                \/ ToLowerCase(item.app) = ToLowerCase(app[1])
                \/ Includes(ToLowerCase(item.appName), ToLowerCase(app[1])))

\* listed holds n entries of candidates, none more often than candidates
\* does, in descending timestamp order, and no candidate left out is newer
\* than a listed one.
IsNewestFirst(listed, candidates, n) ==
    /\ Len(listed) = n
    /\ \A k \in 1..Len(listed) : Count(listed, listed[k]) <= Count(candidates, listed[k])
    /\ \A i, j \in 1..Len(listed) : i < j => listed[i].timestamp >= listed[j].timestamp
    /\ \A m \in 1..Len(candidates) :
           Count(listed, candidates[m]) < Count(candidates, candidates[m])
               => \A k \in 1..Len(listed) : listed[k].timestamp >= candidates[m].timestamp

Max(a, b) == IF a >= b THEN a ELSE b

\* C5: the "list" action returns at most limit entries (10 when no limit is
\* given), for a non-negative limit: the entries matching the app filter that
\* have the largest timestamps, in descending timestamp order.
ListReturnsNewestUpToLimit ==
    (ToolCalled({"list"}) /\ (call.limit = None \/ call.limit[1] >= 0)) =>
        LET limit == IF call.limit = None THEN 10 ELSE call.limit[1]
            candidates == Candidates(History, call.app)
        IN  /\ Len(ret.items) <= limit
            /\ IsNewestFirst(ret.items, candidates, Min(limit, Len(candidates)))

\* A list call without a limit on a history of 11 entries, stored in another
\* order than by timestamp, returned the 10 newest.
ListCutToDefaultLimit ==
    /\ ToolCalled({"list"})
    /\ call.limit = None
    /\ call.app = None
    /\ Len(History) = DefaultLimit + 1
    /\ Len(ret.items) = DefaultLimit
    /\ ret.items[1] # History[1]

\* The pair a star or unstar action acts on: the profile without one leading
\* "@", and the value of the first visible app matching the app argument
ToolPairStarred(st) ==
    isHistoryItemStarred(st,
        IF StartsWith(call.profile[1], <<"@">>) THEN SliceFrom(call.profile[1], 1)
        ELSE call.profile[1],
        resolveAppValue(pre, call.app[1])[1].value)

AppResolves == Truthy(call.app) /\ resolveAppValue(pre, call.app[1]) # <<>>

\* C7: for a non-empty profile and an app that resolves to a visible app, the
\* pair is starred after "star" and not starred after "unstar"; "star" on a
\* starred pair and "unstar" on a pair not starred leave the starred list
\* unchanged.
StarAndUnstarAreIdempotent ==
    (ToolCalled({"star", "unstar"}) /\ Truthy(call.profile) /\ AppResolves) =>
        /\ ToolCalled({"star"}) => ToolPairStarred(storage)
        /\ ToolCalled({"unstar"}) => ~ToolPairStarred(storage)
        /\ (ToolCalled({"star"}) /\ ToolPairStarred(pre)) => Starred = PreStarred
        /\ (ToolCalled({"unstar"}) /\ ~ToolPairStarred(pre)) => Starred = PreStarred

\* "star" was given a pair that was starred already, under another spelling.
StarredTwice ==
    /\ ToolCalled({"star"})
    /\ Truthy(call.profile)
    /\ AppResolves
    /\ call.profile[1] = <<"@", "A">>
    /\ ToolPairStarred(pre)
    /\ PreStarred = <<getHistoryPairKey(<<"a">>, <<"x">>)>>
    /\ ret.msg = "AlreadyStarred"

\* No visible app's value or name is the app argument, trimmed, ignoring case
NoVisibleAppMatches ==
    LET visible == getAllApps(pre)
        given == ToLowerCase(Trim(call.app[1]))
    IN  \A i \in 1..Len(visible) :
            ToLowerCase(visible[i].value) # given /\ ToLowerCase(visible[i].name) # given

Messages == {"ProvideBoth", "NotAvailable"}

\* C8: "star" or "unstar" without a profile, without an app or with an app
\* matching no visible app returns a message and leaves the stored history
\* and the stored starred list unchanged; "list" and "list_starred" never
\* change either.
FailedStarAndListsChangeNothing ==
    /\ (/\ ToolCalled({"star", "unstar"})
        /\ (~Truthy(call.profile) \/ ~Truthy(call.app) \/ NoVisibleAppMatches))
           => /\ ret.msg \in Messages
              /\ ret.items = <<>>
              /\ storage[STORAGE_KEYS.USAGE_HISTORY] = pre[STORAGE_KEYS.USAGE_HISTORY]
              /\ storage[STORAGE_KEYS.STARRED_HISTORY_ITEMS]
                     = pre[STORAGE_KEYS.STARRED_HISTORY_ITEMS]
    /\ ToolCalled({"list", "list_starred"})
           => /\ storage[STORAGE_KEYS.USAGE_HISTORY] = pre[STORAGE_KEYS.USAGE_HISTORY]
              /\ storage[STORAGE_KEYS.STARRED_HISTORY_ITEMS]
                     = pre[STORAGE_KEYS.STARRED_HISTORY_ITEMS]

\* "star" named an app that is hidden by its setting, with other apps visible
\* and history present.
StarOnHiddenApp ==
    /\ ToolCalled({"star"})
    /\ Truthy(call.profile)
    /\ Truthy(call.app)
    /\ call.app[1] = <<" ", "X">>
    /\ NoVisibleAppMatches
    /\ Len(getAllApps(pre)) > 0
    /\ Len(History) > 0
    /\ ret.msg = "NotAvailable"

----------------------------------------------------------------------------
(* getStarredUsageHistory, from an empty store or from a store holding     *)
(* three history entries of which none or two are starred.                 *)

GetStarredUsageHistory(apps, limits) ==
    \E app \in apps, limit \in limits :
        /\ Returned(storage,
                    [NoCall EXCEPT !.op = "getStarredUsageHistory", !.app = app,
                                   !.limit = limit],
                    Result("items", getStarredUsageHistory(storage, app, limit)), now)
        /\ UNCHANGED toggled

\* The store after the first k seeded pairs have been starred
RECURSIVE StarSeeded(_, _)
StarSeeded(st, k) ==
    IF k = 0 THEN st
    ELSE toggleStarredHistoryItem(StarSeeded(st, k - 1), SeedProfile(k),
                                  SeedApp(k).value).storage

QuerySeeds == {<<0, 0>>, <<3, 0>>, <<3, 2>>}

InitQuery ==
    \E seed \in QuerySeeds :
        InitWith(StarSeeded(Seeded(seed[1]), seed[2]), seed[1])

QueryAdd ==
    /\ nOps < MaxToolOps
    /\ AddToUsageHistory({<<"@", "A">>}, {App(<<" ", "X">>, <<"X">>), AppY})

QueryUpdate == nOps < MaxToolOps /\ UpdateUsageHistoryItem({SeedProfile(1)}, {AppX})

QueryToggle ==
    /\ nOps < MaxToolOps
    /\ ToggleStarredHistoryItem({<<"a">>, <<"U", "0">>, <<"b">>}, {<<"x">>, <<"y">>})

QueryGetStarred ==
    /\ nOps < MaxToolOps
    /\ GetStarredUsageHistory({None, Some(<<>>), Some(<<"X">>), Some(<<"y">>)}, Limits)

NextQuery == QueryAdd \/ QueryUpdate \/ QueryToggle \/ QueryGetStarred

SpecQuery == InitQuery /\ [][NextQuery]_vars

\* The history entries whose composite key is starred and that match the app
StarredCandidates ==
    SelectSeq(Candidates(History, call.app),
        LAMBDA item : ArrayIncludes(Starred, getHistoryPairKey(item.profile, item.app)))

\* SubSeq(s, 1, n): the first n entries of s, none when n < 1
FirstCount(len, opt) == IF opt = None THEN len ELSE Min(Max(opt[1], 0), len)

\* C6 as stated: getStarredUsageHistory(app, limit) returns exactly the
\* history entries whose key is starred and that match the app filter, by
\* descending timestamp, cut to the first limit when a limit is given.
StarredQueryCutToAnyLimit ==
    CalledWith("getStarredUsageHistory") =>
        IsNewestFirst(ret.items, StarredCandidates,
                      FirstCount(Len(StarredCandidates), call.limit))

\* C6: for a limit that is not negative, getStarredUsageHistory(app, limit)
\* returns exactly the history entries whose key is starred and that match
\* the app filter, by descending timestamp, cut to the first limit when a
\* limit is given; a starred pair without a history entry is not returned.
StarredQueryCutToNonNegativeLimit ==
    (CalledWith("getStarredUsageHistory") /\ (call.limit = None \/ call.limit[1] >= 0)) =>
        /\ IsNewestFirst(ret.items, StarredCandidates,
                         FirstCount(Len(StarredCandidates), call.limit))
        /\ \A k \in 1..Len(ret.items) :
               HasEntryFor(History, ret.items[k].profile, ret.items[k].app)

\* A query with limit 1 found two starred entries, the newer one stored
\* behind the older one, beside an entry not starred and a starred pair
\* without an entry, and returned the newer one.
StarredQueryCutToOne ==
    /\ CalledWith("getStarredUsageHistory")
    /\ call.limit = Some(1)
    /\ Len(StarredCandidates) = 2
    /\ StarredCandidates[1].timestamp < StarredCandidates[2].timestamp
    /\ Len(History) > 2
    /\ \E i \in 1..Len(Starred) :
           \A k \in 1..Len(History) :
               getHistoryPairKey(History[k].profile, History[k].app) # Starred[i]
    /\ ret.items = <<StarredCandidates[2]>>

====
